---------------------------- MODULE Spec2Model ----------------------------
(***************************************************************************)
(* A model of app.py: the booking / contact back end of a law-practice     *)
(* site.  Four tables (Booking, Testimonial, PracticeArea, Contact), five  *)
(* endpoints served by request threads, the seed block run at every        *)
(* process start, and the e-mail notifier.                                 *)
(*                                                                         *)
(* Text is modelled as a sequence of one-character strings so that         *)
(* strptime, strftime, lstrip and the e-mail pattern are computed, not     *)
(* assumed.                                                                *)
(***************************************************************************)
EXTENDS Integers, Sequences, FiniteSets, TLC

(***************************************************************************)
(* Characters                                                              *)
(***************************************************************************)
Digits == {"0", "1", "2", "3", "4", "5", "6", "7", "8", "9"}

Letters ==
    {"a", "b", "c", "d", "e", "f", "g", "h", "i", "j", "k", "l", "m",
     "n", "o", "p", "q", "r", "s", "t", "u", "v", "w", "x", "y", "z",
     "A", "B", "C", "D", "E", "F", "G", "H", "I", "J", "K", "L", "M",
     "N", "O", "P", "Q", "R", "S", "T", "U", "V", "W", "X", "Y", "Z"}

\* \w of the e-mail pattern
WordChars == Letters \cup Digits \cup {"_"}

\* [\w\.-] of the e-mail pattern
EmailChars == WordChars \cup {".", "-"}

DigitVal(c) ==
    CASE c = "0" -> 0 [] c = "1" -> 1 [] c = "2" -> 2 [] c = "3" -> 3
      [] c = "4" -> 4 [] c = "5" -> 5 [] c = "6" -> 6 [] c = "7" -> 7
      [] c = "8" -> 8 [] c = "9" -> 9

DigitChar(n) ==
    CASE n = 0 -> "0" [] n = 1 -> "1" [] n = 2 -> "2" [] n = 3 -> "3"
      [] n = 4 -> "4" [] n = 5 -> "5" [] n = 6 -> "6" [] n = 7 -> "7"
      [] n = 8 -> "8" [] n = 9 -> "9"

(***************************************************************************)
(* validate_email: `not email` rejects None and "", re.match on a value    *)
(* that is not text raises TypeError, and otherwise the pattern            *)
(* ^[\w\.-]+@[\w\.-]+\.\w+$ decides ($ also matches before a final         *)
(* newline).  A value is [kind, chars], kind "str", "null" or "num" (a     *)
(* non-zero JSON number); the result is "True", "False" or "TypeError".    *)
(***************************************************************************)
AllIn(s, lo, hi, set) == \A k \in lo..hi : s[k] \in set

EmailPatternMatches(s) ==
    \E at \in 1..Len(s), dot \in 1..Len(s), end \in 1..Len(s) :
        /\ s[at] = "@"
        /\ s[dot] = "."
        /\ 1 < at
        /\ at + 1 < dot
        /\ dot < end
        /\ \/ end = Len(s)
           \/ end = Len(s) - 1 /\ s[Len(s)] = "\n"
        /\ AllIn(s, 1, at - 1, EmailChars)
        /\ AllIn(s, at + 1, dot - 1, EmailChars)
        /\ AllIn(s, dot + 1, end, WordChars)

validate_email(email) ==
    IF email.kind = "null" \/ (email.kind = "str" /\ email.chars = <<>>)
    THEN "False"
    ELSE IF email.kind # "str"
    THEN "TypeError"
    ELSE IF EmailPatternMatches(email.chars) THEN "True" ELSE "False"

\* all(field in data ...) and validate_email(data['email']): the second
\* operand is evaluated only when every required field is present.
validate_booking(data) ==
    IF {"name", "email", "phone", "date", "time"} \subseteq data.has
    THEN validate_email(data.email)
    ELSE "False"

validate_contact(data) ==
    IF {"name", "email", "message"} \subseteq data.has
    THEN validate_email(data.email)
    ELSE "False"

(***************************************************************************)
(* datetime.strptime.  A directive matches a run of digits of one of its   *)
(* regular expression's forms; text left over is a ValueError, and so is a *)
(* day the month does not have.  A timestamp is the number of minutes      *)
(* since 0001-01-01 00:00 (date.toordinal() - 1 days), so that equality    *)
(* and order are those of naive datetimes.  Invalid stands for ValueError. *)
(***************************************************************************)
Invalid == -1

MinutesPerDay == 1440

\* the position after the run of digits that starts at i
RunEnd(s, i) ==
    CHOOSE j \in i..(Len(s) + 1) :
        /\ \A k \in i..(j - 1) : s[k] \in Digits
        /\ j = Len(s) + 1 \/ s[j] \notin Digits

\* the position after the run of blanks that starts at i
BlankEnd(s, i) ==
    CHOOSE j \in i..(Len(s) + 1) :
        /\ \A k \in i..(j - 1) : s[k] = " "
        /\ j = Len(s) + 1 \/ s[j] # " "

Number(s, i, j) ==
    IF j - i = 1 THEN DigitVal(s[i])
    ELSE IF j - i = 2 THEN 10 * DigitVal(s[i]) + DigitVal(s[i + 1])
    ELSE 1000 * DigitVal(s[i]) + 100 * DigitVal(s[i + 1])
         + 10 * DigitVal(s[i + 2]) + DigitVal(s[i + 3])

IsLeap(y) == (y % 4 = 0) /\ ((y % 100 # 0) \/ (y % 400 = 0))

DaysInMonth(y, m) ==
    IF m = 2 THEN (IF IsLeap(y) THEN 29 ELSE 28)
    ELSE IF m \in {4, 6, 9, 11} THEN 30 ELSE 31

RECURSIVE DaysBeforeMonth(_, _)
DaysBeforeMonth(y, m) ==
    IF m = 1 THEN 0 ELSE DaysBeforeMonth(y, m - 1) + DaysInMonth(y, m - 1)

DaysBeforeYear(y) ==
    365 * (y - 1) + ((y - 1) \div 4) - ((y - 1) \div 100) + ((y - 1) \div 400)

\* date.toordinal() - 1
DayNumber(y, m, d) == DaysBeforeYear(y) + DaysBeforeMonth(y, m) + d - 1

\* %Y-%m-%d from position 1: [ok, day, next], next the position after %d
ParseDatePrefix(s) ==
    LET bad == [ok |-> FALSE, day |-> 0, next |-> 0]
        y1  == RunEnd(s, 1)
    IN
    IF ~(y1 = 5 /\ y1 <= Len(s) /\ s[y1] = "-") THEN bad
    ELSE LET m0 == y1 + 1
             m1 == RunEnd(s, m0)
         IN
         IF ~(m1 - m0 \in {1, 2} /\ m1 <= Len(s) /\ s[m1] = "-") THEN bad
         ELSE LET d0 == m1 + 1
                  d1 == RunEnd(s, d0)
              IN
              IF d1 - d0 \notin {1, 2} THEN bad
              ELSE LET y == Number(s, 1, y1)
                       m == Number(s, m0, m1)
                       d == Number(s, d0, d1)
                   IN
                   IF /\ y >= 1
                      /\ m \in 1..12
                      /\ d >= 1
                      /\ d <= DaysInMonth(y, m)
                   THEN [ok |-> TRUE, day |-> DayNumber(y, m, d), next |-> d1]
                   ELSE bad

\* datetime.strptime(date_str, '%Y-%m-%d').date(): a day number or Invalid
ParseDate(s) ==
    LET r == ParseDatePrefix(s)
    IN IF r.ok /\ r.next = Len(s) + 1 THEN r.day ELSE Invalid

\* datetime.strptime(s, '%Y-%m-%d %I:%M %p'): a timestamp or Invalid.
\* Blanks of the format match one or more blanks; %p ignores case.
ParseDateTime(s) ==
    LET r == ParseDatePrefix(s)
    IN
    IF ~r.ok THEN Invalid
    ELSE LET h0 == BlankEnd(s, r.next)
             h1 == RunEnd(s, h0)
         IN
         IF ~(h0 > r.next /\ h1 - h0 \in {1, 2} /\ h1 <= Len(s) /\ s[h1] = ":")
         THEN Invalid
         ELSE LET n0 == h1 + 1
                  n1 == RunEnd(s, n0)
                  p0 == BlankEnd(s, n1)
              IN
              IF ~(/\ n1 - n0 \in {1, 2}
                   /\ p0 > n1
                   /\ p0 + 1 = Len(s)
                   /\ s[p0] \in {"A", "a", "P", "p"}
                   /\ s[p0 + 1] \in {"M", "m"})
              THEN Invalid
              ELSE LET h  == Number(s, h0, h1)
                       mi == Number(s, n0, n1)
                       pm == s[p0] \in {"P", "p"}
                   IN
                   IF h \in 1..12 /\ mi \in 0..59
                   THEN r.day * MinutesPerDay
                        + ((h % 12) + (IF pm THEN 12 ELSE 0)) * 60 + mi
                   ELSE Invalid

(***************************************************************************)
(* consultation_date.strftime("%I:%M %p").lstrip("0")                      *)
(***************************************************************************)
TwoDigits(n) == <<DigitChar(n \div 10), DigitChar(n % 10)>>

\* strftime("%I:%M %p") of a timestamp
Strftime(ts) ==
    LET h   == (ts % MinutesPerDay) \div 60
        mi  == ts % 60
        h12 == IF h % 12 = 0 THEN 12 ELSE h % 12
    IN TwoDigits(h12) \o <<":">> \o TwoDigits(mi)
       \o <<" ", (IF h < 12 THEN "A" ELSE "P"), "M">>

RECURSIVE LStripZero(_)
LStripZero(s) ==
    IF s # <<>> /\ Head(s) = "0" THEN LStripZero(Tail(s)) ELSE s

\* the display form without lstrip("0")
BookedTimeZeroPadded(ts) == Strftime(ts)

BookedTime(ts) == LStripZero(Strftime(ts))

(***************************************************************************)
(* Bounds of the model                                                     *)
(***************************************************************************)
NumThreads == 2

MaxBookings == 2

MaxContacts == 1

Threads == 1..NumThreads

(***************************************************************************)
(* Request payloads.  `has` is the set of keys of the JSON object; None is *)
(* Python's None (a JSON null, or data.get of an absent key).              *)
(***************************************************************************)
None == "None"

Str(chars) == [kind |-> "str", chars |-> chars]

NullValue == [kind |-> "null", chars |-> <<>>]

NumValue == [kind |-> "num", chars |-> <<>>]

BookingKeys == {"name", "email", "phone", "date", "time"}

ContactKeys == {"name", "email", "message"}

Date_0501 == <<"2", "0", "2", "4", "-", "0", "5", "-", "0", "1">>
Date_51 == <<"2", "0", "2", "4", "-", "5", "-", "1">>
Date_0502 == <<"2", "0", "2", "4", "-", "0", "5", "-", "0", "2">>
Date_0230 == <<"2", "0", "2", "4", "-", "0", "2", "-", "3", "0">>
Date_Slashes == <<"0", "5", "/", "0", "1", "/", "2", "0", "2", "4">>

Time_9AM == <<"9", ":", "0", "0", " ", "A", "M">>
Time_09am == <<"0", "9", ":", "0", "0", " ", "a", "m">>
Time_10AM == <<"1", "0", ":", "0", "0", " ", "A", "M">>
Time_11AM == <<"1", "1", ":", "0", "0", " ", "A", "M">>
Time_1PM == <<"1", ":", "0", "0", " ", "P", "M">>
Time_2PM == <<"2", ":", "0", "0", " ", "P", "M">>
Time_3PM == <<"3", ":", "0", "0", " ", "P", "M">>
Time_4PM == <<"4", ":", "0", "0", " ", "P", "M">>
Time_930AM == <<"9", ":", "3", "0", " ", "A", "M">>
Time_12AM == <<"1", "2", ":", "0", "0", " ", "A", "M">>
Time_13PM == <<"1", "3", ":", "0", "0", " ", "P", "M">>
Time_24h == <<"1", "4", ":", "0", "0">>

Email_Good == <<"a", "@", "b", ".", "c", "o">>
Email_Bad == <<"n", "o", "t", "-", "a", "n", "-", "e", "m", "a", "i", "l">>

\* default_times of get_available_slots
default_times ==
    <<Time_9AM, Time_10AM, Time_11AM, Time_1PM, Time_2PM, Time_3PM, Time_4PM>>

BookingData(has, name, email, date, time, extra) ==
    [op |-> "create_booking", has |-> has \cup extra, name |-> name,
     email |-> email, phone |-> "555-0100", date |-> date, time |-> time,
     consultationType |-> IF "consultationType" \in extra THEN "Family Law" ELSE None,
     details |-> IF "details" \in extra THEN "custody" ELSE None,
     message |-> IF "message" \in extra THEN "call me" ELSE None]

ContactData(has, name, email, message) ==
    [op |-> "create_contact", has |-> has, name |-> name, email |-> email,
     message |-> message]

GoodBooking(name, date, time) ==
    BookingData(BookingKeys, name, Str(Email_Good), date, time, {})

\* bookings the handlers accept when the slot is free
GoodBookings ==
    {GoodBooking("Asha", Date_0501, Time_9AM),
     GoodBooking("Bina", Date_51, Time_09am),
     GoodBooking("Chet", Date_0502, Time_9AM),
     BookingData(BookingKeys, "Dev", Str(Email_Good), Date_0501, Time_930AM,
                 {"consultationType", "details", "message"})}

\* bookings the handlers refuse
BadBookings ==
    {BookingData(BookingKeys \ {"phone"}, "Asha", Str(Email_Good), Date_0501, Time_9AM, {}),
     BookingData(BookingKeys, "Asha", Str(Email_Bad), Date_0501, Time_9AM, {}),
     BookingData(BookingKeys, "Asha", NullValue, Date_0501, Time_9AM, {}),
     BookingData(BookingKeys, "Asha", NumValue, Date_0501, Time_9AM, {}),
     BookingData(BookingKeys, "Asha", Str(Email_Good), Date_0230, Time_9AM, {}),
     BookingData(BookingKeys, "Asha", Str(Email_Good), Date_0501, Time_13PM, {}),
     BookingData(BookingKeys, "Asha", Str(Email_Good), Date_0501, Time_24h, {}),
     BookingData(BookingKeys, None, Str(Email_Good), Date_0502, Time_2PM, {})}

BookingInputs == GoodBookings \cup BadBookings

\* one booking for each fixed slot of 2024-05-01, and bookings that must not
\* count against that day's list: off the list, at either midnight, on the
\* next day
SlotBookings ==
    {GoodBooking("Asha", Date_0501, default_times[k]) : k \in 1..Len(default_times)}

OtherBookings ==
    {GoodBooking("Dev", Date_0501, Time_930AM),
     GoodBooking("Dev", Date_0501, Time_12AM),
     GoodBooking("Dev", Date_0502, Time_12AM),
     GoodBooking("Chet", Date_0502, Time_9AM)}

\* a request for each fixed slot of the two days, to ask what the conflict
\* check would answer in a given state
ProbeDates == {Date_0501, Date_0502}

Probe(date, time) == GoodBooking("Probe", date, time)

ProbeBookings ==
    {Probe(date, default_times[k]) : date \in ProbeDates, k \in 1..Len(default_times)}

KnownBookings == BookingInputs \cup SlotBookings \cup OtherBookings \cup ProbeBookings

ContactInputs ==
    {ContactData(ContactKeys, "Asha", Str(Email_Good), "hello"),
     ContactData(ContactKeys \ {"message"}, "Asha", Str(Email_Good), None),
     ContactData(ContactKeys, "Asha", Str(Email_Bad), "hello"),
     ContactData(ContactKeys, "Asha", NumValue, "hello"),
     ContactData(ContactKeys, "Asha", Str(Email_Good), None)}

\* request.args.get('date'): absent, or the text given
DateArg(present, chars) == [op |-> "get_available_slots", present |-> present, chars |-> chars]

DateInputs ==
    {DateArg(FALSE, <<>>), DateArg(TRUE, <<>>), DateArg(TRUE, Date_0501),
     DateArg(TRUE, Date_51), DateArg(TRUE, Date_0502),
     DateArg(TRUE, Date_0230), DateArg(TRUE, Date_Slashes)}

NoReq == [op |-> "none"]

(***************************************************************************)
(* Seed data of the module's start-up block                                *)
(***************************************************************************)
TestimonialSeed ==
    <<[name |-> "Priya Sharma", role |-> "Family Law Client",
       image |-> "/images/indian-client-1.jpg",
       text |-> "B Sruti provided exceptional guidance during my divorce proceedings. Her expertise and compassion made a difficult time much easier to navigate. I couldn't have asked for better representation."],
      [name |-> "Rajesh Patel", role |-> "Business Client",
       image |-> "/images/indian-client-2.jpg",
       text |-> "As a small business owner, I needed clear legal advice. B Sruti delivered excellent service and continues to be our trusted advisor. Her strategic approach has saved us from numerous legal complications."],
      [name |-> "Ananya Desai", role |-> "Civil Law Client",
       image |-> "/images/indian-client-3.jpg",
       text |-> "B Sruti's attention to detail and strategic approach helped me win my case. I highly recommend her services to anyone needing legal representation. She's simply the best in the business."]>>

PracticeAreaSeed ==
    <<[title |-> "Civil Law", icon |-> "Scale", link |-> "/practice-areas#civil-law",
       description |-> "Resolution of disputesrule-based access control for disputes between individuals, organizations, or government entities."],
      [title |-> "Criminal Law", icon |-> "Shield", link |-> "/practice-areas#criminal-law",
       description |-> "Defending individuals charged with criminal offenses to protect their rights."],
      [title |-> "Family Law", icon |-> "FileText", link |-> "/practice-areas#family-law",
       description |-> "Legal matters involving family relationships, including divorce and custody."],
      [title |-> "Legal Opinion", icon |-> "FileText", link |-> "/practice-areas#legal-opinion",
       description |-> "Expert legal analysis and advice on specific legal questions and situations."],
      [title |-> "Mediation", icon |-> "MessageSquare", link |-> "/practice-areas#mediation",
       description |-> "Alternative dispute resolution to help parties reach mutually acceptable agreements."],
      [title |-> "Legal Agreement", icon |-> "FileText", link |-> "/practice-areas#legal-agreement",
       description |-> "Drafting and reviewing contracts and agreements to protect your interests."]>>

(***************************************************************************)
(* State                                                                   *)
(***************************************************************************)
VARIABLES
    bookings,        \* the Booking table, rows in insertion order
    contacts,        \* the Contact table
    testimonials,    \* the Testimonial table
    practice_areas,  \* the PracticeArea table
    smtp_env,        \* which of the six SMTP settings the environment gives
    proc,            \* the process: "down", the two seed steps, or "up"
    pc,              \* per request thread: "idle", "commit", "count", "smtp"
    req,             \* per request thread: the payload being handled
    loc,             \* per request thread: the handler's local variables
    response         \* the HTTP response the last step sent, if any

vars == <<bookings, contacts, testimonials, practice_areas, smtp_env, proc, pc, req, loc, response>>

tables == <<bookings, contacts, testimonials, practice_areas>>

SmtpSettings ==
    {"SMTP_HOST", "SMTP_PORT", "SMTP_USERNAME", "SMTP_PASSWORD", "FROM_EMAIL", "TO_EMAIL"}

\* id: booking.id / contact.id; booking_count: the count read for the
\* subject; calls: calls of send_email_notification made for this request
NoLoc == [id |-> 0, booking_count |-> 0, calls |-> 0]

NoResponse ==
    [op |-> "none", req |-> NoReq, code |-> 0, id |-> 0, body |-> <<>>,
     loc |-> NoLoc, mail |-> "none"]

\* mail: "none" (notifier not called), "config_missing", "sent", or the
\* failure the notifier absorbed
Reply(r, code, id, body, l, mail) ==
    [op |-> r.op, req |-> r, code |-> code, id |-> id, body |-> body,
     loc |-> l, mail |-> mail]

Init ==
    /\ bookings = <<>>
    /\ contacts = <<>>
    /\ testimonials = <<>>
    /\ practice_areas = <<>>
    /\ smtp_env \in {SmtpSettings, SmtpSettings \ {"SMTP_PASSWORD"}}
    /\ proc = "down"
    /\ pc = [t \in Threads |-> "idle"]
    /\ req = [t \in Threads |-> NoReq]
    /\ loc = [t \in Threads |-> NoLoc]
    /\ response = NoResponse

(***************************************************************************)
(* Storage                                                                 *)
(***************************************************************************)
\* the integer primary key the engine gives a new row
NextId(rows) == IF rows = <<>> THEN 1 ELSE rows[Len(rows)].id + 1

\* a NOT NULL column given None makes commit raise IntegrityError
BookingRowAccepted(data) == data.name # None /\ data.phone # None

ContactRowAccepted(data) == data.name # None /\ data.message # None

\* datetime.strptime(f"{data['date']} {data['time']}", '%Y-%m-%d %I:%M %p')
ConsultationDate(data) == ParseDateTime(data.date \o <<" ">> \o data.time)

\* the functions above, tabulated once for the payloads the model draws
ConsultationDateOf == [data \in KnownBookings |-> ConsultationDate(data)]

ValidBookingOf == [data \in KnownBookings |-> validate_booking(data)]

ValidContactOf == [data \in ContactInputs |-> validate_contact(data)]

ParsedDateOf == [arg \in DateInputs |-> ParseDate(arg.chars)]

\* Booking(...) of create_booking
NewBooking(data, id) ==
    [id |-> id, name |-> data.name, email |-> data.email.chars,
     phone |-> data.phone,
     consultation_date |-> ConsultationDateOf[data],
     consultation_type |-> data.consultationType,
     details |-> data.details, message |-> data.message]

NewContact(data, id) ==
    [id |-> id, name |-> data.name, email |-> data.email.chars,
     message |-> data.message]

RECURSIVE WithIds(_, _)
WithIds(rows, first) ==
    IF rows = <<>> THEN <<>>
    ELSE <<[id |-> first] @@ Head(rows)>> \o WithIds(Tail(rows), first + 1)

\* a conflict check that compares the day only
ExistingBookingThatDay(rows, ts) ==
    \E i \in 1..Len(rows) :
        rows[i].consultation_date \div MinutesPerDay = ts \div MinutesPerDay

\* Booking.query.filter_by(consultation_date=...).first() is not None
ExistingBooking(rows, ts) ==
    \E i \in 1..Len(rows) : rows[i].consultation_date = ts

\* the count as it was before the insert
BookingCountBeforeInsert(rows) == Len(rows) - 1

\* Booking.query.count()
BookingCount(rows) == Len(rows)

(***************************************************************************)
(* Process start: db.create_all() and the two guarded seed blocks          *)
(***************************************************************************)
\* seeding without the emptiness check
SeedTestimonialRowsUnguarded(rows) ==
    rows \o WithIds(TestimonialSeed, NextId(rows))

SeedTestimonialRows(rows) ==
    IF rows = <<>> THEN WithIds(TestimonialSeed, 1) ELSE rows

SeedPracticeAreaRows(rows) ==
    IF rows = <<>> THEN WithIds(PracticeAreaSeed, 1) ELSE rows

ProcessStart ==
    /\ proc = "down"
    /\ proc' = "seed_testimonials"
    /\ response' = NoResponse
    /\ UNCHANGED <<tables, smtp_env, pc, req, loc>>

SeedTestimonials ==
    /\ proc = "seed_testimonials"
    /\ testimonials' = SeedTestimonialRows(testimonials)
    /\ proc' = "seed_practice_areas"
    /\ response' = NoResponse
    /\ UNCHANGED <<bookings, contacts, practice_areas, smtp_env, pc, req, loc>>

SeedPracticeAreas ==
    /\ proc = "seed_practice_areas"
    /\ practice_areas' = SeedPracticeAreaRows(practice_areas)
    /\ proc' = "up"
    /\ response' = NoResponse
    /\ UNCHANGED <<bookings, contacts, testimonials, smtp_env, pc, req, loc>>

\* the process ends between requests; the database file stays
ProcessStop ==
    /\ proc = "up"
    /\ \A t \in Threads : pc[t] = "idle"
    /\ proc' = "down"
    /\ response' = NoResponse
    /\ UNCHANGED <<tables, smtp_env, pc, req, loc>>

(***************************************************************************)
(* GET /api/bookings                                                       *)
(***************************************************************************)
\* booked_times: the display form of every booking of the day
BookedTimes(rows, day) ==
    {BookedTime(rows[i].consultation_date) :
        i \in {k \in 1..Len(rows) :
                 /\ rows[k].consultation_date >= day * MinutesPerDay
                 /\ rows[k].consultation_date < day * MinutesPerDay + MinutesPerDay}}

AvailableSlots(rows, day) ==
    LET booked == BookedTimes(rows, day)
        Free(time) == time \notin booked
    IN SelectSeq(default_times, Free)

\* the handler's result: [code, body]
get_available_slots(arg, rows) ==
    IF ~arg.present \/ arg.chars = <<>>
    THEN [code |-> 400, body |-> <<>>]
    ELSE IF ParsedDateOf[arg] = Invalid
    THEN [code |-> 400, body |-> <<>>]
    ELSE [code |-> 200, body |-> AvailableSlots(rows, ParsedDateOf[arg])]

\* the server hands an arriving request to a free thread; the threads are
\* alike, so the model always takes the first free one
Serving(t) ==
    /\ proc = "up"
    /\ pc[t] = "idle"
    /\ \A u \in Threads : u < t => pc[u] # "idle"

GetAvailableSlots(t, arg) ==
    /\ Serving(t)
    /\ LET r == get_available_slots(arg, bookings)
       IN response' = Reply(arg, r.code, 0, r.body, NoLoc, "none")
    /\ UNCHANGED <<tables, smtp_env, proc, pc, req, loc>>

(***************************************************************************)
(* GET /api/testimonials, GET /api/practice-areas                          *)
(***************************************************************************)
GetTestimonials(t) ==
    /\ Serving(t)
    /\ response' = Reply([op |-> "get_testimonials"], 200, 0, testimonials, NoLoc, "none")
    /\ UNCHANGED <<tables, smtp_env, proc, pc, req, loc>>

GetPracticeAreas(t) ==
    /\ Serving(t)
    /\ response' = Reply([op |-> "get_practice_areas"], 200, 0, practice_areas, NoLoc, "none")
    /\ UNCHANGED <<tables, smtp_env, proc, pc, req, loc>>

(***************************************************************************)
(* The notifier.  send_email_notification returns False at once when a     *)
(* setting is missing; otherwise it talks to the mail server inside the    *)
(* handler's thread and returns when the server has answered: True when    *)
(* the mail went out, False for any exception (all are caught and logged). *)
(***************************************************************************)
Configured(env) == SmtpSettings \subseteq env

SmtpOutcomes == {"sent", "connect_failed", "login_failed"}

\* a handler that lets the notifier's failure decide the answer
CodeIfMailSent(mail) == IF mail = "sent" THEN 201 ELSE 500

\* the code the handler answers with once the notifier has returned
CodeAfterNotifier(mail) == 201

(***************************************************************************)
(* POST /api/bookings                                                      *)
(***************************************************************************)
\* the checks without the query for an existing booking
create_booking_check_no_query(data, rows) ==
    LET valid == ValidBookingOf[data]
    IN
    IF valid = "TypeError" THEN 500
    ELSE IF valid = "False" THEN 400
    ELSE IF ConsultationDateOf[data] = Invalid THEN 400
    ELSE 0

\* lines 163-179: 500 (TypeError), 400, 409, or 0 to go on to the insert
create_booking_check(data, rows) ==
    LET valid == ValidBookingOf[data]
    IN
    IF valid = "TypeError" THEN 500
    ELSE IF valid = "False" THEN 400
    ELSE LET ts == ConsultationDateOf[data]
         IN
         IF ts = Invalid THEN 400
         ELSE IF ExistingBooking(rows, ts) THEN 409
         ELSE 0

Finish(t) ==
    /\ pc' = [pc EXCEPT ![t] = "idle"]
    /\ req' = [req EXCEPT ![t] = NoReq]
    /\ loc' = [loc EXCEPT ![t] = NoLoc]

\* validation, parsing and the query for an existing booking
CreateBookingCheck(t, data) ==
    /\ Serving(t)
    /\ LET code == create_booking_check(data, bookings)
       IN
       IF code # 0
       THEN /\ response' = Reply(data, code, 0, <<>>, NoLoc, "none")
            /\ UNCHANGED <<pc, req, loc>>
       ELSE /\ Len(bookings) + Cardinality({u \in Threads : pc[u] = "commit"})
                 < MaxBookings
            /\ pc' = [pc EXCEPT ![t] = "commit"]
            /\ req' = [req EXCEPT ![t] = data]
            /\ loc' = [loc EXCEPT ![t] = NoLoc]
            /\ response' = NoResponse
    /\ UNCHANGED <<tables, smtp_env, proc>>

\* an insert that replaces the row of the same consultation_date
CreateBookingUpsert(t) ==
    /\ pc[t] = "commit"
    /\ LET row  == NewBooking(req[t], NextId(bookings))
           Keep(old) == old.consultation_date # row.consultation_date
       IN bookings' = Append(SelectSeq(bookings, Keep), row)
    /\ pc' = [pc EXCEPT ![t] = "count"]
    /\ loc' = [loc EXCEPT ![t].id = NextId(bookings)]
    /\ response' = NoResponse
    /\ UNCHANGED <<req, contacts, testimonials, practice_areas, smtp_env, proc>>

\* db.session.add(booking); db.session.commit()
CreateBookingCommit(t) ==
    /\ pc[t] = "commit"
    /\ IF BookingRowAccepted(req[t])
       THEN /\ bookings' = Append(bookings, NewBooking(req[t], NextId(bookings)))
            /\ pc' = [pc EXCEPT ![t] = "count"]
            /\ loc' = [loc EXCEPT ![t].id = NextId(bookings)]
            /\ response' = NoResponse
            /\ UNCHANGED req
       ELSE /\ response' = Reply(req[t], 500, 0, <<>>, loc[t], "none")
            /\ Finish(t)
            /\ UNCHANGED bookings
    /\ UNCHANGED <<contacts, testimonials, practice_areas, smtp_env, proc>>

\* booking_count = Booking.query.count(); send_email_notification(...)
CreateBookingNotify(t) ==
    /\ pc[t] = "count"
    /\ LET local == [loc[t] EXCEPT !.booking_count = BookingCount(bookings),
                                   !.calls = @ + 1]
       IN
       IF Configured(smtp_env)
       THEN /\ pc' = [pc EXCEPT ![t] = "smtp"]
            /\ loc' = [loc EXCEPT ![t] = local]
            /\ response' = NoResponse
            /\ UNCHANGED req
       ELSE /\ response' = Reply(req[t], CodeAfterNotifier("config_missing"),
                                 local.id, <<>>, local, "config_missing")
            /\ Finish(t)
    /\ UNCHANGED <<tables, smtp_env, proc>>

(***************************************************************************)
(* POST /api/contact                                                       *)
(***************************************************************************)
CreateContact(t, data) ==
    /\ Serving(t)
    /\ LET valid == ValidContactOf[data]
           id    == NextId(contacts)
           local == [NoLoc EXCEPT !.id = id, !.calls = 1]
       IN
       IF valid # "True" \/ ~ContactRowAccepted(data)
       THEN /\ response' = Reply(data, (IF valid = "False" THEN 400 ELSE 500),
                                 0, <<>>, NoLoc, "none")
            /\ UNCHANGED <<contacts, pc, req, loc>>
       ELSE /\ Len(contacts) < MaxContacts
            /\ contacts' = Append(contacts, NewContact(data, id))
            /\ IF Configured(smtp_env)
               THEN /\ pc' = [pc EXCEPT ![t] = "smtp"]
                    /\ req' = [req EXCEPT ![t] = data]
                    /\ loc' = [loc EXCEPT ![t] = local]
                    /\ response' = NoResponse
               ELSE /\ response' = Reply(data, CodeAfterNotifier("config_missing"),
                                         id, <<>>, local, "config_missing")
                    /\ UNCHANGED <<pc, req, loc>>
    /\ UNCHANGED <<bookings, testimonials, practice_areas, smtp_env, proc>>

\* the mail server's answer reaches the thread waiting in smtplib; the
\* handler then returns its response
SmtpReturn(t, outcome) ==
    /\ pc[t] = "smtp"
    /\ response' = Reply(req[t], CodeAfterNotifier(outcome), loc[t].id, <<>>,
                         loc[t], outcome)
    /\ Finish(t)
    /\ UNCHANGED <<tables, smtp_env, proc>>

(***************************************************************************)
(* Specifications                                                          *)
(***************************************************************************)
Lifecycle ==
    \/ ProcessStart
    \/ SeedTestimonials
    \/ SeedPracticeAreas
    \/ ProcessStop

\* a request arrives, drawn from the given inputs
Arrive(t, dates, bookingData, contactData) ==
    \/ \E arg \in dates : GetAvailableSlots(t, arg)
    \/ GetTestimonials(t)
    \/ GetPracticeAreas(t)
    \/ \E data \in bookingData : CreateBookingCheck(t, data)
    \/ \E data \in contactData : CreateContact(t, data)

\* the inputs of the concurrent specification: the bookings that can race
\* or collide, and one refused request of each kind
RaceDates == {DateArg(TRUE, Date_0501), DateArg(TRUE, Date_Slashes)}

RaceBookings ==
    {GoodBooking("Asha", Date_0501, Time_9AM),
     GoodBooking("Bina", Date_51, Time_09am),
     GoodBooking("Chet", Date_0502, Time_9AM),
     BookingData(BookingKeys, "Asha", Str(Email_Bad), Date_0501, Time_9AM, {})}

RaceContacts ==
    {ContactData(ContactKeys, "Asha", Str(Email_Good), "hello"),
     ContactData(ContactKeys, "Asha", Str(Email_Bad), "hello")}

Proceed(t) ==
    \/ CreateBookingCommit(t)
    \/ CreateBookingNotify(t)
    \/ \E outcome \in SmtpOutcomes : SmtpReturn(t, outcome)

\* request threads run concurrently (the development server is threaded)
Next ==
    \/ Lifecycle
    \/ \E t \in Threads : Arrive(t, RaceDates, RaceBookings, RaceContacts)
    \/ \E t \in Threads : Proceed(t)

Spec == Init /\ [][Next]_vars

Quiescent == \A t \in Threads : pc[t] = "idle"

\* requests one after another: a request arrives only when none is in hand
NextSeq ==
    \/ Lifecycle
    \/ Quiescent /\ \E t \in Threads : Arrive(t, DateInputs, BookingInputs, ContactInputs)
    \/ \E t \in Threads : Proceed(t)

SpecSeq == Init /\ [][NextSeq]_vars

\* the availability query over every store made of the slot bookings and the
\* other bookings, each store in one insertion order
RECURSIVE RowsOf(_, _)
RowsOf(set, id) ==
    IF set = {} THEN <<>>
    ELSE LET data == CHOOSE data \in set : TRUE
         IN <<NewBooking(data, id)>> \o RowsOf(set \ {data}, id + 1)

InitSlots ==
    /\ bookings \in {RowsOf(slots \cup others, 1) :
                        slots \in SUBSET SlotBookings, others \in SUBSET OtherBookings}
    /\ contacts = <<>>
    /\ testimonials = SeedTestimonialRows(<<>>)
    /\ practice_areas = SeedPracticeAreaRows(<<>>)
    /\ smtp_env = SmtpSettings
    /\ proc = "up"
    /\ pc = [t \in Threads |-> "idle"]
    /\ req = [t \in Threads |-> NoReq]
    /\ loc = [t \in Threads |-> NoLoc]
    /\ response = NoResponse

NextSlots == \E t \in Threads, arg \in DateInputs : GetAvailableSlots(t, arg)

SpecSlots == InitSlots /\ [][NextSlots]_vars

\* every step of a handler's own code is eventually taken; nothing makes
\* the mail server answer
FairSpec ==
    /\ Spec
    /\ \A t \in Threads :
          WF_vars(CreateBookingCommit(t)) /\ WF_vars(CreateBookingNotify(t))

(***************************************************************************)
(* The claims                                                              *)
(***************************************************************************)
BookingsAt(ts) == {i \in 1..Len(bookings) : bookings[i].consultation_date = ts}

Occupied(ts) == BookingsAt(ts) # {}

InSeq(x, seq) == \E i \in 1..Len(seq) : seq[i] = x

\* a request the handler has nothing to object to: every required key, an
\* e-mail of the pattern, a date and time that parse, no null column
WellFormedBooking(data) ==
    /\ data.op = "create_booking"
    /\ ValidBookingOf[data] = "True"
    /\ ConsultationDateOf[data] # Invalid
    /\ BookingRowAccepted(data)

\* the dates the well-formed bookings of the model are for
BookingDates == {Date_0501, Date_51, Date_0502}

\* strptime of each such date, alone and with each fixed slot, tabulated
DayOf == [date \in BookingDates |-> ParseDate(date)]

SlotTimestampOf ==
    [date \in BookingDates |->
        [k \in 1..Len(default_times) |->
            ParseDateTime(date \o <<" ">> \o default_times[k])]]

\* the record of a request, as the handler stored it under `id`
RecordStored(data, id) ==
    IF data.op = "create_booking"
    THEN InSeq(NewBooking(data, id), bookings)
    ELSE InSeq(NewContact(data, id), contacts)

\* C1: under any interleaving of concurrent POST /api/bookings requests the
\* store holds at most one Booking per consultation_date value (so two
\* requests for one date and time never both get 201).
C1_OneBookingPerConsultationDate ==
    \A i, j \in 1..Len(bookings) :
        bookings[i].consultation_date = bookings[j].consultation_date => i = j

\* C2: with requests handled one after another, a well-formed POST
\* /api/bookings for a date and time no Booking occupies is not refused, adds
\* exactly one Booking (at its commit, none before or after) and is answered
\* 201; one for a date and time a Booking occupies is answered 409 and leaves
\* the Booking table as it was.
C2_SequentialBookingThenConflict ==
    [][/\ response'.op = "create_booking" /\ WellFormedBooking(response'.req)
            => response'.code \in {201, 409}
       /\ Quiescent /\ response'.op = "create_booking" /\ WellFormedBooking(response'.req)
            => response'.code = 409
       /\ response'.op = "create_booking" /\ response'.code = 409
            => /\ bookings' = bookings
               /\ Occupied(ConsultationDateOf[response'.req])
       /\ \A t \in Threads :
            /\ pc[t] = "idle" /\ pc'[t] = "commit"
                 => /\ ~Occupied(ConsultationDateOf[req'[t]])
                    /\ bookings' = bookings
            /\ pc[t] = "commit" /\ WellFormedBooking(req[t])
                 => /\ pc'[t] = "count"
                    /\ Len(bookings') = Len(bookings) + 1
                    /\ Cardinality(BookingsAt(ConsultationDateOf[req[t]])') = 1
            /\ pc[t] \in {"count", "smtp"} => bookings' = bookings
            /\ pc[t] \in {"count", "smtp"} /\ req[t].op = "create_booking"
                 /\ pc'[t] = "idle"
                 => response'.code = 201 /\ response'.req = req[t]
      ]_vars

\* C2's case: the same slot, written "2024-5-1" and "09:00 am", asked for a
\* second time and refused
C2_Witness ==
    /\ response.op = "create_booking"
    /\ response.code = 409
    /\ response.req.date = Date_51
    /\ Len(bookings) = 1

\* C3: for every valid date d and every store, GET /api/bookings?date=d
\* answers 200 with exactly the fixed slots for which no Booking exists on d
\* at the slot's time, in the fixed order: 7 - N slots when N fixed slots of
\* d are booked; bookings of other days or of times off the list remove
\* nothing.
C3_AvailableSlotsAreTheFreeFixedSlots ==
    response.op = "get_available_slots" /\ response.req.chars \in BookingDates
    => LET date == response.req.chars
           Booked(k) == Occupied(SlotTimestampOf[date][k])
           FreeSlots == {k \in 1..Len(default_times) : ~Booked(k)}
           N == Cardinality({k \in 1..Len(default_times) : Booked(k)})
       IN /\ response.code = 200
          /\ Len(response.body) = 7 - N
          /\ \A k \in 1..Len(default_times) :
                InSeq(default_times[k], response.body) <=> k \in FreeSlots
          /\ \A i, j \in 1..Len(response.body) :
                i < j => \E k, l \in FreeSlots :
                           /\ k < l
                           /\ response.body[i] = default_times[k]
                           /\ response.body[j] = default_times[l]

\* C3's case: every fixed slot of the day booked, beside the four bookings
\* that do not count, and the list comes back empty
C3_Witness ==
    /\ response.op = "get_available_slots"
    /\ response.req.chars = Date_0501
    /\ response.code = 200
    /\ response.body = <<>>
    /\ Len(bookings) = 11

\* C4: once a booking or contact request has stored its record, the answer
\* is 201 and the record is in the store, whatever the notifier met (a
\* missing setting, a failed connection, a failed login, or success); while
\* the notifier runs the record stays stored.
C4_NotifierOutcomeNeverChangesTheAnswer ==
    /\ response.op \in {"create_booking", "create_contact"} /\ response.mail # "none"
         => /\ response.code = 201
            /\ RecordStored(response.req, response.id)
    /\ \A t \in Threads :
         pc[t] \in {"count", "smtp"} => RecordStored(req[t], loc[t].id)

\* C4's case: the login at the mail server failed for a booking
C4_Witness ==
    /\ response.op = "create_booking"
    /\ response.mail = "login_failed"
    /\ response.code = 201
    /\ RecordStored(response.req, response.id)

\* what C5 calls a payload that fails validation, or a date or time that
\* fails to parse
Refusable(data) ==
    \/ /\ data.op = "create_booking"
       /\ \/ ~(BookingKeys \subseteq data.has)
          \/ data.email.kind # "str"
          \/ ~EmailPatternMatches(data.email.chars)
          \/ ConsultationDateOf[data] = Invalid
    \/ /\ data.op = "create_contact"
       /\ \/ ~(ContactKeys \subseteq data.has)
          \/ data.email.kind # "str"
          \/ ~EmailPatternMatches(data.email.chars)

\* C5: every booking or contact POST whose payload fails validation (a
\* required field missing, an e-mail not of the pattern) and every booking
\* POST whose date or time fails to parse is answered 400, writes nothing
\* and calls no notifier.
C5_RefusedRequestsAnswer400 ==
    [][response'.op \in {"create_booking", "create_contact"}
         /\ Refusable(response'.req)
         => /\ response'.code = 400
            /\ tables' = tables
            /\ response'.loc.calls = 0
            /\ response'.mail = "none"
      ]_vars

\* C6: every booking or contact request that is being handled is eventually
\* answered, even when the mail server never answers.
C6_EveryRequestIsAnswered ==
    \A t \in Threads : (pc[t] # "idle") ~> (pc[t] = "idle")

\* C7: no step updates or deletes a stored Booking, and the three read
\* requests leave all four tables as they were and answer from the tables
\* alone (the same rows again while nothing is written).
C7_BookingsAreKeptAndReadsWriteNothing ==
    [][/\ Len(bookings') >= Len(bookings)
       /\ \A i \in 1..Len(bookings) : bookings'[i] = bookings[i]
       /\ response'.op \in {"get_available_slots", "get_testimonials", "get_practice_areas"}
            => tables' = tables
       /\ response'.op = "get_testimonials" => response'.body = testimonials
       /\ response'.op = "get_practice_areas" => response'.body = practice_areas
      ]_vars

\* C7's case: a read answered while two bookings are stored
C7_Witness ==
    /\ response.op = "get_testimonials"
    /\ Len(response.body) = 3
    /\ Len(bookings) = 2

\* C8: after any number of process starts and requests the Testimonial table
\* holds exactly the three seeded rows and the PracticeArea table the six; a
\* start fills a table only when it is empty and leaves Booking and Contact
\* alone.
C8_SeedingIsIdempotent ==
    /\ [](/\ proc \in {"seed_practice_areas", "up"}
               => testimonials = WithIds(TestimonialSeed, 1) /\ Len(testimonials) = 3
          /\ proc = "up"
               => practice_areas = WithIds(PracticeAreaSeed, 1) /\ Len(practice_areas) = 6
          /\ bookings # <<>> \/ contacts # <<>>
               => Len(testimonials) = 3 /\ Len(practice_areas) = 6)
    /\ [][/\ testimonials' # testimonials
               => testimonials = <<>> /\ proc = "seed_testimonials"
          /\ practice_areas' # practice_areas
               => practice_areas = <<>> /\ proc = "seed_practice_areas"
          /\ proc # "up" => bookings' = bookings /\ contacts' = contacts
         ]_vars

\* C8's case: a later start, made after a booking was stored, has passed the
\* testimonial block and found the table filled
C8_Witness ==
    /\ proc = "seed_practice_areas"
    /\ bookings # <<>>
    /\ Len(testimonials) = 3
    /\ Len(practice_areas) = 6

\* C9: a booking request answered 201 called the notifier exactly once, after
\* its Booking was committed, and the count in the subject is the number of
\* Booking rows at that moment, its own included: at least 1, and equal to
\* the count before its insert plus one when no other request has inserted
\* since.  A request answered 400 or 409 called no notifier.
C9_OneNotificationStampedWithTheCount ==
    [][/\ response'.op = "create_booking"
            => /\ response'.code = 201
                    => /\ response'.loc.calls = 1
                       /\ response'.loc.booking_count >= 1
               /\ response'.code \in {400, 409}
                    => /\ response'.loc.calls = 0
                       /\ response'.mail = "none"
       /\ \A t \in Threads :
            /\ pc[t] = "commit" /\ pc'[t] = "count"
                 => /\ loc'[t].id = Len(bookings) + 1
                    /\ loc'[t].calls = 0
            /\ pc[t] = "count" /\ pc'[t] # "count"
                 => LET local == IF pc'[t] = "smtp" THEN loc'[t] ELSE response'.loc
                    IN /\ local.calls = 1
                       /\ InSeq(NewBooking(req[t], local.id), bookings)
                       /\ local.booking_count = Len(bookings')
                       /\ local.booking_count >= local.id
                       /\ bookings[Len(bookings)].id = local.id
                            => local.booking_count = local.id
            /\ pc[t] = "smtp" /\ pc'[t] = "idle"
                 => /\ response'.loc = loc[t]
                    /\ loc[t].calls = 1
      ]_vars

\* C9's case: two requests raced, and the first one's notification carries
\* the count 2
C9_Witness ==
    /\ response.op = "create_booking"
    /\ response.code = 201
    /\ response.id = 1
    /\ response.loc.booking_count = 2

\* C10: in every reachable state and for each fixed slot t of a day d, t is
\* in the list GET /api/bookings?date=d returns exactly when a well-formed POST
\* for (d, t) is not refused (it goes on to insert and answer 201, not 409);
\* the step that commits a booking for (d, t) takes t off d's list and leaves
\* the list of every other day as it was.
C10_AvailabilityAgreesWithTheConflictCheck ==
    /\ [](\A date \in ProbeDates, k \in 1..Len(default_times) :
             LET time == default_times[k]
             IN /\ InSeq(time, get_available_slots(DateArg(TRUE, date), bookings).body)
                     <=> create_booking_check(Probe(date, time), bookings) = 0
                /\ create_booking_check(Probe(date, time), bookings) \in {0, 409})
    /\ [][\A t \in Threads :
             pc[t] = "commit" /\ pc'[t] = "count"
             => /\ \A k \in 1..Len(default_times) :
                     SlotTimestampOf[req[t].date][k] = ConsultationDateOf[req[t]]
                     => ~InSeq(default_times[k],
                               AvailableSlots(bookings', DayOf[req[t].date]))
                /\ \A date \in ProbeDates :
                     DayOf[date] # DayOf[req[t].date]
                     => AvailableSlots(bookings', DayOf[date])
                          = AvailableSlots(bookings, DayOf[date])
         ]_vars

\* C10's case: 9:00 AM of 2024-05-01 is booked: it is off that day's list and
\* a POST for it would be refused, while the next day's list is whole
C10_Witness ==
    /\ Occupied(SlotTimestampOf[Date_0501][1])
    /\ ~InSeq(Time_9AM, AvailableSlots(bookings, DayOf[Date_0501]))
    /\ create_booking_check(Probe(Date_0501, Time_9AM), bookings) = 409
    /\ AvailableSlots(bookings, DayOf[Date_0502]) = default_times

===========================================================================
